---- MODULE Spec2Model ----
(***************************************************************************)
(* A model of subrepos/burly/.plano.py: the commands test, lint and        *)
(* extract, and the two regular-expression scans extract_boilerplate and   *)
(* extract_functions.  Texts are strings; a character is a string of       *)
(* length one.                                                             *)
(***************************************************************************)
EXTENDS Naturals, Sequences, FiniteSets, TLC

VARIABLES
    cmd,             \* the command being run: "test", "lint" or "extract"
    verbose,         \* test(verbose=...)
    coverage,        \* test(coverage=...)
    function_names,  \* the names given to extract
    WINDOWS,         \* plano's platform flag
    present,         \* the programs found on the search path
    burly_sh,        \* the contents of the file burly.sh
    pc,              \* the line of .plano.py about to be executed
    ret,             \* where extract returns to
    code,            \* extract's local: the text read
    boilerplate,     \* extract's local: <<>> for None, <<s>> for the string s
    funcs,           \* extract's local: the function table
    idx,             \* position of the running for loop
    log,             \* what the command has done so far, in order
    err              \* "" or the exception that ended the command

vars == <<cmd, verbose, coverage, function_names, WINDOWS, present, burly_sh,
          pc, ret, code, boilerplate, funcs, idx, log, err>>

(***************************************************************************)
(* Bounds of the model.                                                    *)
(***************************************************************************)
MaxLines == 4
MaxNames == 2

(***************************************************************************)
(* Strings.                                                                *)
(***************************************************************************)
Min(S) == CHOOSE x \in S : \A y \in S : x <= y

Sub(s, a, b) == IF a > b THEN "" ELSE SubSeq(s, a, b)

StartsWithAt(s, i, lit) ==
    /\ i >= 1
    /\ i + Len(lit) - 1 <= Len(s)
    /\ SubSeq(s, i, i + Len(lit) - 1) = lit

\* The first position >= from at which lit occurs in s; 0 when there is none.
Find(s, lit, from) ==
    LET hits == {j \in from..Len(s) : StartsWithAt(s, j, lit)}
    IN  IF hits = {} THEN 0 ELSE Min(hits)

\* Python's str whitespace (ASCII part) and the regular expression class \s.
IsSpace(c) == c \in {" ", "\t", "\n", "\r", "\f"}

\* The regular expression class \w (ASCII part).
IsWord(c) ==
    c \in {"a", "b", "c", "d", "e", "f", "g", "h", "i", "j", "k", "l", "m",
           "n", "o", "p", "q", "r", "s", "t", "u", "v", "w", "x", "y", "z",
           "A", "B", "C", "D", "E", "F", "G", "H", "I", "J", "K", "L", "M",
           "N", "O", "P", "Q", "R", "S", "T", "U", "V", "W", "X", "Y", "Z",
           "0", "1", "2", "3", "4", "5", "6", "7", "8", "9", "_"}

RECURSIVE lstrip(_)
lstrip(s) ==
    IF Len(s) > 0 /\ IsSpace(SubSeq(s, 1, 1)) THEN lstrip(Sub(s, 2, Len(s))) ELSE s

RECURSIVE rstrip(_)
rstrip(s) ==
    IF Len(s) > 0 /\ IsSpace(SubSeq(s, Len(s), Len(s)))
    THEN rstrip(Sub(s, 1, Len(s) - 1)) ELSE s

strip(s) == rstrip(lstrip(s))

\* The position after the longest run of \w characters that starts at i.
RECURSIVE SkipWord(_, _)
SkipWord(s, i) ==
    IF i <= Len(s) /\ IsWord(SubSeq(s, i, i)) THEN SkipWord(s, i + 1) ELSE i

\* The position after the longest run of \s characters that starts at i.
RECURSIVE SkipSpace(_, _)
SkipSpace(s, i) ==
    IF i <= Len(s) /\ IsSpace(SubSeq(s, i, i)) THEN SkipSpace(s, i + 1) ELSE i

None == <<>>
Some(s) == <<s>>

(***************************************************************************)
(* extract_boilerplate: re.search of                                       *)
(*   # BEGIN BOILERPLATE\n(.*?)\n# END BOILERPLATE     (DOTALL)            *)
(* The leftmost start wins; from it the lazy group takes the nearest end.  *)
(***************************************************************************)
BeginPattern == "# BEGIN BOILERPLATE\n"
EndPattern == "\n# END BOILERPLATE"

\* The match that starts at i, as <<first, last>> of group 1; <<>> for none.
MatchBoilerplateAt(s, i) ==
    IF ~StartsWithAt(s, i, BeginPattern) THEN <<>>
    ELSE LET g == i + Len(BeginPattern)
             e == Find(s, EndPattern, g)
         IN  IF e = 0 THEN <<>> ELSE <<g, e - 1>>

SearchBoilerplate(s) ==
    LET starts == {i \in 1..Len(s) : MatchBoilerplateAt(s, i) # <<>>}
    IN  IF starts = {} THEN <<>> ELSE MatchBoilerplateAt(s, Min(starts))

\* The scan with the END marker optional: a region that is never closed runs
\* to the end of the text.
extract_boilerplate_NoEnd(s) ==
    LET i == Find(s, BeginPattern, 1)
        g == i + Len(BeginPattern)
        e == Find(s, EndPattern, g)
    IN  IF i = 0 THEN None
        ELSE Some(strip(Sub(s, g, IF e = 0 THEN Len(s) ELSE e - 1)))

extract_boilerplate(s) ==
    LET m == SearchBoilerplate(s)
    IN  IF m # <<>> THEN Some(strip(Sub(s, m[1], m[2]))) ELSE None

(***************************************************************************)
(* extract_functions: re.finditer of                                       *)
(*   \n(\w+)\s*\(\)\s+{\n.*?\n}                        (DOTALL)            *)
(* The greedy runs \w+, \s* and \s+ can give nothing back (what follows    *)
(* each is outside its class), so each takes its longest run.              *)
(***************************************************************************)
\* The match that starts at i, as [first, last, name]; <<>> for none.
MatchFunctionAt(s, i) ==
    IF ~StartsWithAt(s, i, "\n") THEN <<>>
    ELSE LET a == SkipWord(s, i + 1)
             b == SkipSpace(s, a)
             c == SkipSpace(s, b + 2)
             e == Find(s, "\n}", c + 2)
         IN  IF /\ a > i + 1
                /\ StartsWithAt(s, b, "()")
                /\ c > b + 2
                /\ StartsWithAt(s, c, "{\n")
                /\ e # 0
             THEN <<i, e + 1, Sub(s, i + 1, a - 1)>>
             ELSE <<>>

\* The matches in the order finditer yields them: leftmost first, each search
\* starting where the match before it ended.
RECURSIVE finditer(_, _)
finditer(s, pos) ==
    LET starts == {i \in pos..Len(s) : MatchFunctionAt(s, i) # <<>>}
    IN  IF starts = {} THEN <<>>
        ELSE LET m == MatchFunctionAt(s, Min(starts))
             IN  <<m>> \o finditer(s, m[2] + 1)

\* functions[match.group(1)] = match.group(0), a later match overwriting.
extract_functions(s) ==
    LET matches == finditer(s, 1)
        names == {matches[k][3] : k \in 1..Len(matches)}
        last(n) == CHOOSE k \in 1..Len(matches) :
                      /\ matches[k][3] = n
                      /\ \A j \in 1..Len(matches) : matches[j][3] = n => j <= k
    IN  [n \in names |-> Sub(s, matches[last(n)][1], matches[last(n)][2])]

(***************************************************************************)
(* The plano library this file imports everything from, which is not part  *)
(* of the file: check_program fails when the program is not on the search path,   *)
(* run waits for the subprocess and fails on a non-zero exit, and a        *)
(* failure ends the command.                                               *)
(***************************************************************************)
Event(op, arg, ok) == [op |-> op, arg |-> arg, ok |-> ok]

which(program) == program \in present

check_program(program, next) ==
    /\ log' = Append(log, Event("check", program, which(program)))
    /\ err' = IF which(program) THEN err ELSE "PlanoError"
    /\ pc' = IF which(program) THEN next ELSE "done"

run(command, exit_ok, next) ==
    /\ log' = Append(log, Event("run", command, exit_ok))
    /\ err' = IF exit_ok THEN err ELSE "PlanoProcessError"
    /\ pc' = IF exit_ok THEN next ELSE "done"

\* Python's str() of what print is given: None prints as the word None.
str(x) == IF x = None THEN "None" ELSE x[1]

(***************************************************************************)
(* The inputs.                                                             *)
(***************************************************************************)
Shells == <<"ash", "bash", "dash", "ksh", "mksh", "yash", "zsh">>

ShellSet == {Shells[k] : k \in 1..Len(Shells)}

EmptyDict == [n \in {} |-> ""]

RECURSIVE Join(_)
Join(ls) ==
    IF Len(ls) = 0 THEN ""
    ELSE IF Len(ls) = 1 THEN ls[1]
    ELSE ls[1] \o "\n" \o Join(Tail(ls))

\* The lines the scanned texts are made of.
LineAlphabet ==
    {"# BEGIN BOILERPLATE", "# END BOILERPLATE", "greet() {", "assert() {",
     "}", "}; x", "  X=1 ", ""}

Texts == {Join(ls) : ls \in UNION {[1..n -> LineAlphabet] : n \in 1..MaxLines}}

\* The burly.sh files the commands are run on: the example of the
\* specification (no assert function), one with both functions, and one with
\* no boilerplate region.
BurlyFiles ==
    {"# BEGIN BOILERPLATE\nX=1\n# END BOILERPLATE\ngreet() {\n  echo \"hi\"\n}\n",
     "# BEGIN BOILERPLATE\nX=1\n# END BOILERPLATE\n\ngreet() {\n  echo \"hi\"\n}\n\nassert() {\n  test \"$1\"\n}\n",
     "#!/bin/sh\n\nassert() {\n  test \"$1\"\n}\n"}

NameLists == UNION {[1..n -> {"assert", "greet"}] : n \in 0..MaxNames}

FirstLine(c) ==
    IF c = "test" THEN "L5" ELSE IF c = "lint" THEN "L30" ELSE "L42"

Locals ==
    /\ ret = "done"
    /\ code = ""
    /\ boilerplate = None
    /\ funcs = EmptyDict
    /\ idx = 0
    /\ log = <<>>
    /\ err = ""

Init ==
    /\ cmd \in {"test", "lint", "extract"}
    /\ verbose \in (IF cmd = "test" THEN BOOLEAN ELSE {FALSE})
    /\ coverage \in (IF cmd = "test" THEN BOOLEAN ELSE {FALSE})
    /\ function_names \in (IF cmd = "extract" THEN NameLists ELSE {<<>>})
    /\ WINDOWS \in BOOLEAN
    /\ present \in (IF cmd = "test" THEN SUBSET ({"bats", "kcov"} \cup ShellSet)
                    ELSE IF cmd = "lint" THEN SUBSET {"shellcheck"}
                    ELSE {{}})
    /\ burly_sh \in BurlyFiles
    /\ pc = FirstLine(cmd)
    /\ Locals

\* The scans alone, on every text of up to MaxLines lines.
InitScan ==
    /\ cmd = "extract"
    /\ verbose = FALSE
    /\ coverage = FALSE
    /\ function_names = <<>>
    /\ WINDOWS = FALSE
    /\ present = {}
    /\ burly_sh \in Texts
    /\ pc = "L42"
    /\ Locals

Args == <<cmd, verbose, coverage, WINDOWS, present, burly_sh>>

(***************************************************************************)
(* extract, lines 40-50.                                                   *)
(***************************************************************************)
ExtractRead ==
    /\ pc = "L42"
    /\ code' = burly_sh
    /\ pc' = "L44"
    /\ UNCHANGED <<Args, function_names, ret, boilerplate, funcs, idx, log, err>>

ExtractBoilerplate ==
    /\ pc = "L44"
    /\ boilerplate' = extract_boilerplate(code)
    /\ pc' = "L45"
    /\ UNCHANGED <<Args, function_names, ret, code, funcs, idx, log, err>>

ExtractFunctions ==
    /\ pc = "L45"
    /\ funcs' = extract_functions(code)
    /\ pc' = "L47"
    /\ UNCHANGED <<Args, function_names, ret, code, boilerplate, idx, log, err>>

ExtractPrintBoilerplate ==
    /\ pc = "L47"
    /\ log' = Append(log, Event("print", str(boilerplate), TRUE))
    /\ idx' = 1
    /\ pc' = "L49"
    /\ UNCHANGED <<Args, function_names, ret, code, boilerplate, funcs, err>>

\* print(funcs[name]): a name that is no key raises KeyError.
ExtractPrintFunction ==
    /\ pc = "L49"
    /\ idx <= Len(function_names)
    /\ IF function_names[idx] \in DOMAIN funcs
       THEN /\ log' = Append(log, Event("print", funcs[function_names[idx]], TRUE))
            /\ idx' = idx + 1
            /\ UNCHANGED <<pc, err>>
       ELSE /\ err' = "KeyError"
            /\ pc' = "done"
            /\ UNCHANGED <<log, idx>>
    /\ UNCHANGED <<Args, function_names, ret, code, boilerplate, funcs>>

ExtractReturn ==
    /\ pc = "L49"
    /\ idx > Len(function_names)
    /\ pc' = ret
    /\ UNCHANGED <<Args, function_names, ret, code, boilerplate, funcs, idx, log, err>>

(***************************************************************************)
(* test(verbose, coverage), lines 3-22.                                    *)
(***************************************************************************)
Trace == IF verbose THEN "--trace" ELSE ""

TestExtract ==
    /\ pc = "L5"
    /\ function_names' = <<"assert">>
    /\ ret' = "L7"
    /\ pc' = "L42"
    /\ UNCHANGED <<Args, code, boilerplate, funcs, idx, log, err>>

TestCheckBats ==
    /\ pc = "L7"
    /\ ~WINDOWS
    /\ check_program("bats", "L10")
    /\ UNCHANGED <<Args, function_names, ret, code, boilerplate, funcs, idx>>

TestSkipBats ==
    /\ pc = "L7"
    /\ WINDOWS
    /\ pc' = "L17"
    /\ UNCHANGED <<Args, function_names, ret, code, boilerplate, funcs, idx, log, err>>

\* The step with the existence check of kcov left out.
TestCheckKcov_Skipped ==
    /\ pc = "L10"
    /\ coverage
    /\ pc' = "L13"
    /\ UNCHANGED <<Args, function_names, ret, code, boilerplate, funcs, idx, log, err>>

TestCheckKcov ==
    /\ pc = "L10"
    /\ coverage
    /\ check_program("kcov", "L13")
    /\ UNCHANGED <<Args, function_names, ret, code, boilerplate, funcs, idx>>

TestRunKcov ==
    /\ pc = "L13"
    /\ \E exit_ok \in BOOLEAN :
          run("kcov ~/coverage bats " \o Trace \o " tests/main.sh", exit_ok, "L17")
    /\ UNCHANGED <<Args, function_names, ret, code, boilerplate, funcs, idx>>

TestRunBats ==
    /\ pc = "L10"
    /\ ~coverage
    /\ \E exit_ok \in BOOLEAN :
          run("bats " \o Trace \o " tests/main.sh", exit_ok, "L17")
    /\ UNCHANGED <<Args, function_names, ret, code, boilerplate, funcs, idx>>

\* The step with the exit status of sh ignored.
TestRunSh_Unchecked ==
    /\ pc = "L17"
    /\ \E exit_ok \in BOOLEAN :
          log' = Append(log, Event("run", "sh tests/install.sh", exit_ok))
    /\ pc' = "L19"
    /\ UNCHANGED <<Args, function_names, ret, code, boilerplate, funcs, idx, err>>

TestRunSh ==
    /\ pc = "L17"
    /\ \E exit_ok \in BOOLEAN : run("sh tests/install.sh", exit_ok, "L19")
    /\ UNCHANGED <<Args, function_names, ret, code, boilerplate, funcs, idx>>

\* The step with the platform test left out: the shells are tried on Windows too.
TestShells_AllPlatforms ==
    /\ pc = "L19"
    /\ pc' = "L20"
    /\ idx' = 1
    /\ UNCHANGED <<Args, function_names, ret, code, boilerplate, funcs, log, err>>

TestShells ==
    /\ pc = "L19"
    /\ pc' = IF WINDOWS THEN "done" ELSE "L20"
    /\ idx' = 1
    /\ UNCHANGED <<Args, function_names, ret, code, boilerplate, funcs, log, err>>

\* for shell in ...: if which(shell):
TestWhich ==
    /\ pc = "L20"
    /\ IF idx > Len(Shells) THEN pc' = "done" /\ idx' = idx
       ELSE IF which(Shells[idx]) THEN pc' = "L22" /\ idx' = idx
       ELSE pc' = "L20" /\ idx' = idx + 1
    /\ UNCHANGED <<Args, function_names, ret, code, boilerplate, funcs, log, err>>

TestRunShell ==
    /\ pc = "L22"
    /\ \E exit_ok \in BOOLEAN :
          run(Shells[idx] \o " tests/install.sh", exit_ok, "L20")
    /\ idx' = idx + 1
    /\ UNCHANGED <<Args, function_names, ret, code, boilerplate, funcs>>

(***************************************************************************)
(* lint(), lines 24-32.                                                    *)
(***************************************************************************)
LintCheck ==
    /\ pc = "L30"
    /\ check_program("shellcheck", "L32")
    /\ UNCHANGED <<Args, function_names, ret, code, boilerplate, funcs, idx>>

LintRun ==
    /\ pc = "L32"
    /\ \E exit_ok \in BOOLEAN :
          run("shellcheck --shell sh --enable all --exclude SC3043 burly.sh",
              exit_ok, "done")
    /\ UNCHANGED <<Args, function_names, ret, code, boilerplate, funcs, idx>>

Extract ==
    \/ ExtractRead
    \/ ExtractBoilerplate
    \/ ExtractFunctions
    \/ ExtractPrintBoilerplate
    \/ ExtractPrintFunction
    \/ ExtractReturn

Test ==
    \/ TestExtract
    \/ TestCheckBats
    \/ TestSkipBats
    \/ TestCheckKcov
    \/ TestRunKcov
    \/ TestRunBats
    \/ TestRunSh
    \/ TestShells
    \/ TestWhich
    \/ TestRunShell

Lint == LintCheck \/ LintRun

Next == Extract \/ Test \/ Lint

Spec == Init /\ [][Next]_vars

NextScan == ExtractRead \/ ExtractBoilerplate \/ ExtractFunctions

SpecScan == InitScan /\ [][NextScan]_vars

(***************************************************************************)
(* The text seen as lines, for the statements about marker lines and       *)
(* function definitions.                                                   *)
(***************************************************************************)
RECURSIVE SplitLines(_)
SplitLines(s) ==
    LET k == Find(s, "\n", 1)
    IN  IF k = 0 THEN <<s>>
        ELSE <<Sub(s, 1, k - 1)>> \o SplitLines(Sub(s, k + 1, Len(s)))

Slice(ls, a, b) == IF a > b THEN <<>> ELSE SubSeq(ls, a, b)

\* A line of the form name() {
IsHeaderLine(l) ==
    LET a == SkipWord(l, 1) IN a > 1 /\ Sub(l, a, Len(l)) = "() {"

HeaderName(l) == Sub(l, 1, SkipWord(l, 1) - 1)

BoilerplateDone == pc \in {"L45", "L47"}

FunctionsDone == pc = "L47"

\* C1: for a text with the line # BEGIN BOILERPLATE and, later, the line
\* # END BOILERPLATE, extract_boilerplate returns the content between the first
\* BEGIN line and the nearest END line after it, stripped; the content may be
\* empty.
C1_Claim ==
    BoilerplateDone =>
        LET ls == SplitLines(code)
            begins == {i \in 1..Len(ls) : ls[i] = "# BEGIN BOILERPLATE"}
        IN  begins # {} =>
                LET b == Min(begins)
                    ends == {j \in (b + 1)..Len(ls) : ls[j] = "# END BOILERPLATE"}
                IN  ends # {} =>
                        boilerplate = Some(strip(Join(Slice(ls, b + 1, Min(ends) - 1))))

\* A definition name() { / body lines / } that starts at line i and ends at
\* line j: at least one body line, none of them beginning with a brace.
WellFormedAt(ls, i, j) ==
    /\ IsHeaderLine(ls[i])
    /\ j >= i + 2
    /\ j <= Len(ls)
    /\ ls[j] = "}"
    /\ \A k \in (i + 1)..(j - 1) : ~IsHeaderLine(ls[k]) /\ ~StartsWithAt(ls[k], 1, "}")

\* C2: for a well-formed definition preceded by a newline, the value stored
\* under its name is exactly the text from the first character of the name to
\* the closing brace, with no newline before the name.
C2_Claim ==
    FunctionsDone =>
        LET ls == SplitLines(code)
        IN  \A i \in 2..Len(ls) : \A j \in i..Len(ls) :
                (/\ WellFormedAt(ls, i, j)
                 /\ \A k \in 1..Len(ls) :
                        IsHeaderLine(ls[k]) /\ HeaderName(ls[k]) = HeaderName(ls[i]) => k = i)
                => /\ HeaderName(ls[i]) \in DOMAIN funcs
                   /\ funcs[HeaderName(ls[i])] = Join(Slice(ls, i, j))

\* C3: the keys of the function table are exactly the names of the
\* definitions name() { ... } of the text, the one on the first line and the
\* one with an empty body included.
C3_Claim ==
    FunctionsDone =>
        LET ls == SplitLines(code)
            defs == {i \in 1..Len(ls) :
                        IsHeaderLine(ls[i]) /\ \E j \in (i + 1)..Len(ls) : ls[j] = "}"}
        IN  DOMAIN funcs = {HeaderName(ls[i]) : i \in defs}

\* C4: every captured definition ends at the nearest line after its opening
\* line that consists of the closing brace alone; a line that only begins with
\* a brace does not end it.
C4_Claim ==
    FunctionsDone =>
        LET matches == finditer(code, 1)
        IN  \A n \in 1..Len(matches) :
                LET m == matches[n]
                    vl == SplitLines(Sub(code, m[1], m[2]))
                    opening == Min({k \in 2..Len(vl) :
                                       StartsWithAt(vl[k], Len(vl[k]), "{")})
                IN  /\ m[2] = Len(code) \/ StartsWithAt(code, m[2] + 1, "\n")
                    /\ \A k \in (opening + 1)..(Len(vl) - 1) : vl[k] # "}"

\* A BEGIN marker followed, after it, by an END marker.
HasRegion(s) ==
    \E i \in 1..Len(s) :
        /\ StartsWithAt(s, i, "# BEGIN BOILERPLATE")
        /\ \E j \in (i + Len("# BEGIN BOILERPLATE"))..Len(s) :
               StartsWithAt(s, j, "# END BOILERPLATE")

\* The parentheses of a definition followed by a closing brace.
HasDefinition(s) ==
    \E i \in 1..Len(s) :
        /\ StartsWithAt(s, i, "()")
        /\ \E j \in (i + 2)..Len(s) : StartsWithAt(s, j, "}")

Done == pc = "done"

IsRun(e) == e.op = "run"

FailedStep(e) == e.op \in {"check", "run"} /\ ~e.ok

BatsCommand == "bats " \o Trace \o " tests/main.sh"

KcovCommand == "kcov ~/coverage bats " \o Trace \o " tests/main.sh"

ShCommand == "sh tests/install.sh"

ShellCommand(shell) == shell \o " tests/install.sh"

Happened(e) == \E k \in 1..Len(log) : log[k] = e

Before(e, k) == \E j \in 1..(k - 1) : log[j] = e

\* C6: extract runs to completion without raising, whatever the text and the
\* requested names: no boilerplate region and a requested name that is no key
\* of the function table are not errors, and test is not halted by them.
C6_Claim == err # "KeyError"

\* C7: extract(n1, ..., nk) prints exactly k+1 items: the boilerplate, then for
\* each requested name, in the order requested, the value the function table
\* holds for it.
C7_Claim ==
    (cmd = "extract" /\ Done) =>
        /\ Len(log) = Len(function_names) + 1
        /\ log[1] = Event("print", str(boilerplate), TRUE)
        /\ \A k \in 1..Len(function_names) :
               /\ function_names[k] \in DOMAIN funcs
               /\ log[k + 1] = Event("print", funcs[function_names[k]], TRUE)

\* The subprocesses of the command in the order the program names them.
ProgramOrder ==
    IF cmd = "test"
    THEN <<KcovCommand, BatsCommand, ShCommand>>
             \o [k \in 1..Len(Shells) |-> ShellCommand(Shells[k])]
    ELSE IF cmd = "lint"
    THEN <<"shellcheck --shell sh --enable all --exclude SC3043 burly.sh">>
    ELSE <<>>

Position(command) == CHOOSE k \in 1..Len(ProgramOrder) : ProgramOrder[k] = command

\* C8: in test and lint the subprocesses are started in program order, none
\* twice, and a failed existence check or a subprocess that exits non-zero is
\* the last thing the command does.
C8_FailFast ==
    /\ \A k \in 1..Len(log) :
           FailedStep(log[k]) => k = Len(log) /\ Done /\ err # ""
    /\ \A k \in 1..Len(log) :
           IsRun(log[k]) => \E n \in 1..Len(ProgramOrder) : ProgramOrder[n] = log[k].arg
    /\ \A j \in 1..Len(log) : \A k \in (j + 1)..Len(log) :
           IsRun(log[j]) /\ IsRun(log[k]) => Position(log[j].arg) < Position(log[k].arg)

\* test halted by a shell that failed after bats, sh and another shell ran.
C8_Witness ==
    /\ cmd = "test"
    /\ Done
    /\ err = "PlanoProcessError"
    /\ Len(log) >= 5
    /\ Happened(Event("run", BatsCommand, TRUE))
    /\ Happened(Event("run", ShCommand, TRUE))
    /\ log[Len(log)] = Event("run", ShellCommand("zsh"), FALSE)

BatsRuns == {k \in 1..Len(log) : IsRun(log[k]) /\ log[k].arg \in {BatsCommand, KcovCommand}}

\* What C9 says of the order of the checks and the runs.
ChecksFirst ==
    /\ \A k \in 1..Len(log) :
           log[k] = Event("run", BatsCommand, log[k].ok)
               => Before(Event("check", "bats", TRUE), k)
    /\ \A k \in 1..Len(log) :
           log[k] = Event("run", KcovCommand, log[k].ok)
               => /\ coverage
                  /\ Before(Event("check", "bats", TRUE), k)
                  /\ Before(Event("check", "kcov", TRUE), k)
    /\ \A k \in 1..Len(log) :
           (IsRun(log[k]) /\ cmd = "lint")
               => Before(Event("check", "shellcheck", TRUE), k)
    /\ \A k \in 1..Len(log) :
           (log[k].op = "check" /\ ~log[k].ok) => k = Len(log) /\ Done
    /\ ~coverage =>
           \A k \in 1..Len(log) :
               log[k].arg # KcovCommand /\ log[k] # Event("check", "kcov", log[k].ok)

\* C9 as stated: bats, kcov and shellcheck are run only after their existence
\* checks succeeded, a failed check ends the command, without coverage kcov is
\* neither checked nor run, and every test run runs exactly one of the two
\* bats invocations.  The test runs that a failure ends are left aside here:
\* the statement fails without them.
C9_Claim ==
    /\ ChecksFirst
    /\ (cmd = "test" /\ Done /\ err = "") => Cardinality(BatsRuns) = 1

\* The test runs that reach the bats step.
ReachesBats ==
    /\ cmd = "test"
    /\ ~WINDOWS
    /\ err # "KeyError"
    /\ which("bats")
    /\ coverage => which("kcov")

\* C9 amended: as C9, but a test run runs exactly one of the two bats
\* invocations when it is not on Windows, extract("assert") did not raise and
\* the existence checks succeeded, and none otherwise.
C9_Amended ==
    /\ ChecksFirst
    /\ (cmd = "test" /\ Done) =>
           Cardinality(BatsRuns) = (IF ReachesBats THEN 1 ELSE 0)
    /\ Cardinality(BatsRuns) <= 1

\* A finished test run with coverage in which kcov was checked and then run.
C9_Witness ==
    /\ cmd = "test"
    /\ Done
    /\ coverage
    /\ err = ""
    /\ \E k \in 1..Len(log) :
           /\ log[k] = Event("run", KcovCommand, TRUE)
           /\ Before(Event("check", "kcov", TRUE), k)
    /\ Cardinality(BatsRuns) = 1

\* The runs of tests/install.sh, in order.
InstallRuns ==
    LET IsInstall(e) ==
            /\ IsRun(e)
            /\ e.arg \in {ShCommand} \cup {ShellCommand(sh) : sh \in ShellSet}
        runs == SelectSeq(log, IsInstall)
    IN  [k \in 1..Len(runs) |-> runs[k].arg]

\* tests/install.sh under each shell of the list that is present, in list order.
RECURSIVE PresentShells(_)
PresentShells(k) ==
    IF k > Len(Shells) THEN <<>>
    ELSE (IF which(Shells[k]) THEN <<ShellCommand(Shells[k])>> ELSE <<>>)
             \o PresentShells(k + 1)

BatsBeforeSh ==
    \E k \in 1..Len(log) :
        /\ log[k] = Event("run", ShCommand, TRUE)
        /\ \E j \in 1..(k - 1) : j \in BatsRuns

\* C10 as stated: on every platform a test run in which no step fails runs
\* tests/install.sh once under sh, after the bats step, and then once under
\* each present shell of the list, in list order.
C10_Claim ==
    (cmd = "test" /\ Done /\ err = "") =>
        /\ InstallRuns = <<ShCommand>> \o PresentShells(1)
        /\ BatsBeforeSh

\* C10 amended: off Windows as stated; on Windows tests/install.sh is run under
\* sh alone, with no bats step before it and under no other shell.
C10_Amended ==
    (cmd = "test" /\ Done /\ err = "") =>
        IF WINDOWS
        THEN InstallRuns = <<ShCommand>> /\ BatsRuns = {}
        ELSE InstallRuns = <<ShCommand>> \o PresentShells(1) /\ BatsBeforeSh

\* A finished test run off Windows with bash present and ash absent.
C10_Witness ==
    /\ cmd = "test"
    /\ Done
    /\ err = ""
    /\ ~WINDOWS
    /\ which("bash")
    /\ which("zsh")
    /\ ~which("ash")
    /\ Happened(Event("run", ShellCommand("bash"), TRUE))
    /\ ~Happened(Event("run", ShellCommand("ash"), TRUE))

====
